---- MODULE Spec2Model ----
(***************************************************************************)
(* The Sunday scheduler service: a job store of one-shot publish jobs      *)
(* keyed "post-<post id>", the scheduling API over it (routes/schedule.py),*)
(* the publish trigger with its in-memory retry tracker (jobs.py) and the  *)
(* catch-up of missed posts (catchup.py).                                  *)
(*                                                                         *)
(* Time is in seconds.  The job store is the APScheduler job store the     *)
(* code calls through get_job / add_job / remove_job; it is kept here as a *)
(* set of job records so that "one job per key" is something the           *)
(* operations establish, not something the representation gives away.      *)
(***************************************************************************)
EXTENDS Integers, Sequences, FiniteSets, TLC

VARIABLES
    now,            \* the wall clock, datetime.now(timezone.utc)
    jobs,           \* the job store: a set of [id, run_date, args]
    retry_counts,   \* jobs._retry_counts: post id -> count, absent = no record
    running,        \* the job instances executing on the pool, each with its place
    sor,            \* the system of record's posts, as GET /posts would list them
    last,           \* what the step just taken did and returned
    history,        \* per post, what its firings have done so far
    request,        \* the API handler that is between two calls on the job store
    catchup         \* the run of recover_missed_posts that is inside its loop

vars == <<now, jobs, retry_counts, running, sor, last, history, request, catchup>>

-----------------------------------------------------------------------------
(* Program constants *)

MAX_RETRIES == 3
RETRY_DELAY_SECONDS == 120
CATCHUP_DELAY_SECONDS == 30
CATCHUP_INTERVAL_SECONDS == 300
max_instances == 1
misfire_grace_time == 3600

(* Bounds of the model *)

\* the clock runs to MaxRounds retry delays after the start
MaxRounds == 3
\* longest listing the system of record is started with in ReconcileSpec
MaxListing == 2
\* enqueues per post by callers and catch-up, where they are counted
MaxEnqueues == 2
\* retry delays a process lifetime is followed for, where firings are counted
MaxLifetime == 4

Posts == {"p1", "p2"}
\* the fire-at times a caller asks for, and the times the posts are due
ScheduleTimes == {0, 300}
MaxTime == MaxRounds * RETRY_DELAY_SECONDS
LifeTime == MaxLifetime * RETRY_DELAY_SECONDS
\* the clock is read every retry delay
TimeSteps == {RETRY_DELAY_SECONDS}

-----------------------------------------------------------------------------
(* The job store, as the code uses it *)

None == [none |-> TRUE]

\* job_id = f"post-{post_id}"
JobId(post_id) == "post-" \o post_id

\* the job the code builds for add_job(trigger="date", run_date=..., args=[post_id], id=job_id)
DateJob(job_id, run_date, post_id) ==
    [id |-> job_id, run_date |-> run_date, args |-> post_id]

\* a lookup that never finds the job
get_job_blind(store, job_id) == None

get_job(store, job_id) ==
    LET found == {j \in store : j.id = job_id}
    IN  IF found = {} THEN None ELSE CHOOSE j \in found : TRUE

\* add_job: a job with the same id is replaced when replace_existing, else
\* the call raises ConflictingIdError and stores nothing
add_job(store, job, replace_existing) ==
    IF get_job(store, job.id) = None
    THEN [store |-> store \cup {job}, exc |-> "none"]
    ELSE IF replace_existing
         THEN [store |-> {j \in store : j.id # job.id} \cup {job}, exc |-> "none"]
         ELSE [store |-> store, exc |-> "ConflictingIdError"]

\* remove_job: raises JobLookupError when no job has the id
remove_job(store, job_id) ==
    IF get_job(store, job_id) = None
    THEN [store |-> store, exc |-> "JobLookupError"]
    ELSE [store |-> {j \in store : j.id # job_id}, exc |-> "none"]

-----------------------------------------------------------------------------
(* routes/schedule.py: each handler, from the store to the store and the    *)
(* HTTP response.  An exception other than HTTPException is a 500.          *)

Response(store, status_code, status, job_id, post_id, scheduled_at) ==
    [store |-> store, status_code |-> status_code, status |-> status,
     job_id |-> job_id, post_id |-> post_id, scheduled_at |-> scheduled_at]

ErrorResponse(store, status_code, post_id) ==
    Response(store, status_code, "error", None, post_id, None)

\* ScheduleRequest.post_id: Field(..., min_length=1)
ValidScheduleRequest(post_id) == post_id # ""

\* create without the look-up for an existing job
create_schedule_unchecked(store, post_id, scheduled_at) ==
    LET job_id == JobId(post_id)
        added == add_job(store, DateJob(job_id, scheduled_at, post_id), FALSE)
    IN  IF ~ValidScheduleRequest(post_id) THEN ErrorResponse(store, 422, post_id)
        ELSE IF added.exc # "none" THEN ErrorResponse(added.store, 500, post_id)
        ELSE Response(added.store, 201, "scheduled", job_id, post_id, scheduled_at)

create_schedule(store, post_id, scheduled_at) ==
    LET job_id == JobId(post_id)
        existing == get_job(store, job_id)
        added == add_job(store, DateJob(job_id, scheduled_at, post_id), FALSE)
    IN  IF ~ValidScheduleRequest(post_id) THEN ErrorResponse(store, 422, post_id)
        ELSE IF existing # None THEN ErrorResponse(store, 409, post_id)
        ELSE IF added.exc # "none" THEN ErrorResponse(added.store, 500, post_id)
        ELSE Response(added.store, 201, "scheduled", job_id, post_id, scheduled_at)

\* cancel that answers without removing the job
cancel_schedule_keeps(store, post_id) ==
    LET job == get_job(store, JobId(post_id))
    IN  IF job = None THEN ErrorResponse(store, 404, post_id)
        ELSE Response(store, 200, "cancelled", None, post_id, None)

cancel_schedule(store, post_id) ==
    LET job_id == JobId(post_id)
        job == get_job(store, job_id)
        removed == remove_job(store, job_id)
    IN  IF job = None THEN ErrorResponse(store, 404, post_id)
        ELSE IF removed.exc # "none" THEN ErrorResponse(removed.store, 500, post_id)
        ELSE Response(removed.store, 200, "cancelled", None, post_id, None)

\* reschedule that adds the new job without removing the one it replaces
reschedule_post_no_remove(store, post_id, scheduled_at) ==
    LET job_id == JobId(post_id)
        added == add_job(store, DateJob(job_id, scheduled_at, post_id), FALSE)
    IN  IF added.exc # "none" THEN ErrorResponse(added.store, 500, post_id)
        ELSE Response(added.store, 200, "rescheduled", job_id, post_id, scheduled_at)

reschedule_post(store, post_id, scheduled_at) ==
    LET job_id == JobId(post_id)
        existing == get_job(store, job_id)
        removed == IF existing # None THEN remove_job(store, job_id)
                   ELSE [store |-> store, exc |-> "none"]
        added == add_job(removed.store, DateJob(job_id, scheduled_at, post_id), FALSE)
    IN  IF removed.exc # "none" THEN ErrorResponse(removed.store, 500, post_id)
        ELSE IF added.exc # "none" THEN ErrorResponse(added.store, 500, post_id)
        ELSE Response(added.store, 200, "rescheduled", job_id, post_id, scheduled_at)

get_schedule(store, post_id) ==
    LET job_id == JobId(post_id)
        job == get_job(store, job_id)
    IN  IF job = None THEN ErrorResponse(store, 404, post_id)
        ELSE Response(store, 200, "scheduled", job_id, post_id, job.run_date)

-----------------------------------------------------------------------------
(* The system of record: its posts {id, scheduledAt | scheduled_at, status} *)
(* as JSON values.  A string is [t |-> "str", s |-> text]; an ISO-8601      *)
(* timestamp is a string that also carries what its text spells: the        *)
(* wall-clock reading and the zone suffix written after it.                 *)

JNull == [t |-> "null"]
JNum(n) == [t |-> "num", n |-> n]
JStr(s) == [t |-> "str", s |-> s]
JIso(wall, suffix) == [t |-> "str", s |-> "iso-8601", wall |-> wall, suffix |-> suffix]
JList(items) == [t |-> "list", items |-> items]
\* a JSON object holding one field
JObject(field, value) == [t |-> "dict", field |-> field, value |-> value]

Post(id, scheduledAt, scheduled_at, status) ==
    [id |-> id, scheduledAt |-> scheduledAt, scheduled_at |-> scheduled_at,
     status |-> status]

\* Python's truth value of a JSON value
Truthy(v) ==
    CASE v.t = "null" -> FALSE
      [] v.t = "num" -> v.n # 0
      [] v.t = "str" -> v.s # ""
      [] v.t = "list" -> v.items # << >>
      [] OTHER -> TRUE

\* the zone suffixes an ISO text is written with, and the offset each spells
ZoneSuffixes == {"Z", "+00:00", "+01:00", ""}
NoTzinfo == [tzinfo |-> "None"]
Tzinfo(seconds) == [tzinfo |-> "offset", seconds |-> seconds]
UtcOffset(suffix) ==
    CASE suffix = "+00:00" -> Tzinfo(0)
      [] suffix = "+01:00" -> Tzinfo(3600)
      [] OTHER -> NoTzinfo

\* str.replace("Z", "+00:00") on a timestamp text
ReplaceZ(v) ==
    IF v.s = "iso-8601" /\ v.suffix = "Z" THEN [v EXCEPT !.suffix = "+00:00"] ELSE v

\* datetime.fromisoformat: a wall-clock reading with its tzinfo, or ValueError;
\* a bare "Z" suffix is not taken, which is why the code replaces it first
fromisoformat(v) ==
    IF v.s = "iso-8601" /\ v.suffix # "Z"
    THEN [exc |-> "none", wall |-> v.wall, utcoffset |-> UtcOffset(v.suffix)]
    ELSE [exc |-> "ValueError"]

\* the instant, in UTC seconds, of an aware datetime
UtcInstant(dt) == dt.wall - dt.utcoffset.seconds

-----------------------------------------------------------------------------
(* jobs.py: the retry tracker and the publish trigger *)

\* how an HTTP call ends: a 2xx answer, another status, or no answer at all
HttpOutcomes == {"ok", "status_error", "transport_error"}

get_retry_count(counts, post_id) ==
    IF post_id \in DOMAIN counts THEN counts[post_id] ELSE 0

\* the tracker emptied instead of one entry removed
clear_retry_count_all(counts, post_id) == << >>

clear_retry_count(counts, post_id) ==
    [q \in DOMAIN counts \ {post_id} |-> counts[q]]

\* _retry_counts[post_id] = n
set_retry_count(counts, post_id, n) ==
    [q \in DOMAIN counts \cup {post_id} |-> IF q = post_id THEN n ELSE counts[q]]

\* PATCH /posts/{post_id} {"status": status}, as the system of record applies it
patch_post(s, post_id, status) ==
    [i \in DOMAIN s |->
        IF s[i].id = JStr(post_id) THEN [s[i] EXCEPT !.status = status] ELSE s[i]]

\* client.patch(...) without raise_for_status: only a transport error is seen,
\* and only a 2xx answer changed the post
_mark_post_failed(s, post_id, attempts, outcome) ==
    [sor |-> IF outcome = "ok" THEN patch_post(s, post_id, "failed") ELSE s,
     call |-> [call |-> "patch_failed", post_id |-> post_id,
               attempts |-> attempts, outcome |-> outcome]]

_schedule_retry(store, t_now, post_id) ==
    LET run_date == t_now + RETRY_DELAY_SECONDS
        job_id == JobId(post_id)
        existing == get_job(store, job_id)
        removed == IF existing # None THEN remove_job(store, job_id)
                   ELSE [store |-> store, exc |-> "none"]
        added == add_job(removed.store, DateJob(job_id, run_date, post_id), TRUE)
    IN  IF removed.exc # "none" THEN removed ELSE added

\* a firing that retries while retry_count <= MAX_RETRIES
trigger_linkedin_publish_extra_retry(store, counts, s, t_now, post_id, patch_out, webhook_out, failed_out) ==
    LET retry_count == get_retry_count(counts, post_id)
        attempt == retry_count + 1
        patch_call == [call |-> "patch_publishing", post_id |-> post_id,
                       attempts |-> 0, outcome |-> patch_out]
        webhook_call == [call |-> "post_webhook", post_id |-> post_id,
                         attempts |-> 0, outcome |-> webhook_out]
        \* client.patch raises on a transport error, raise_for_status on a non-2xx
        s1 == IF patch_out = "ok" THEN patch_post(s, post_id, "publishing") ELSE s
        calls1 == IF patch_out = "ok" THEN <<patch_call, webhook_call>>
                  ELSE <<patch_call>>
        http_error == patch_out # "ok" \/ webhook_out # "ok"
        retried == _schedule_retry(store, t_now, post_id)
        marked == _mark_post_failed(s1, post_id, MAX_RETRIES + 1, failed_out)
    IN  IF ~http_error
        THEN [store |-> store, counts |-> clear_retry_count(counts, post_id),
              sor |-> s1, calls |-> calls1, attempt |-> attempt,
              outcome |-> "success", exc |-> "none"]
        ELSE IF retry_count <= MAX_RETRIES
        THEN [store |-> retried.store,
              counts |-> set_retry_count(counts, post_id, retry_count + 1),
              sor |-> s1, calls |-> calls1, attempt |-> attempt,
              outcome |-> "retry", exc |-> retried.exc]
        ELSE [store |-> store, counts |-> clear_retry_count(counts, post_id),
              sor |-> marked.sor, calls |-> Append(calls1, marked.call),
              attempt |-> attempt, outcome |-> "failed", exc |-> "none"]

\* a firing that leaves the retry record in place on success
trigger_linkedin_publish_keeps_count(store, counts, s, t_now, post_id, patch_out, webhook_out, failed_out) ==
    LET retry_count == get_retry_count(counts, post_id)
        attempt == retry_count + 1
        patch_call == [call |-> "patch_publishing", post_id |-> post_id,
                       attempts |-> 0, outcome |-> patch_out]
        webhook_call == [call |-> "post_webhook", post_id |-> post_id,
                         attempts |-> 0, outcome |-> webhook_out]
        \* client.patch raises on a transport error, raise_for_status on a non-2xx
        s1 == IF patch_out = "ok" THEN patch_post(s, post_id, "publishing") ELSE s
        calls1 == IF patch_out = "ok" THEN <<patch_call, webhook_call>>
                  ELSE <<patch_call>>
        http_error == patch_out # "ok" \/ webhook_out # "ok"
        retried == _schedule_retry(store, t_now, post_id)
        marked == _mark_post_failed(s1, post_id, MAX_RETRIES + 1, failed_out)
    IN  IF ~http_error
        THEN [store |-> store, counts |-> counts,
              sor |-> s1, calls |-> calls1, attempt |-> attempt,
              outcome |-> "success", exc |-> "none"]
        ELSE IF retry_count < MAX_RETRIES
        THEN [store |-> retried.store,
              counts |-> set_retry_count(counts, post_id, retry_count + 1),
              sor |-> s1, calls |-> calls1, attempt |-> attempt,
              outcome |-> "retry", exc |-> retried.exc]
        ELSE [store |-> store, counts |-> clear_retry_count(counts, post_id),
              sor |-> marked.sor, calls |-> Append(calls1, marked.call),
              attempt |-> attempt, outcome |-> "failed", exc |-> "none"]

\* a firing that goes on to the webhook whatever became of the status update
trigger_linkedin_publish_best_effort(store, counts, s, t_now, post_id, patch_out, webhook_out, failed_out) ==
    LET retry_count == get_retry_count(counts, post_id)
        attempt == retry_count + 1
        patch_call == [call |-> "patch_publishing", post_id |-> post_id,
                       attempts |-> 0, outcome |-> patch_out]
        webhook_call == [call |-> "post_webhook", post_id |-> post_id,
                         attempts |-> 0, outcome |-> webhook_out]
        \* client.patch raises on a transport error, raise_for_status on a non-2xx
        s1 == IF patch_out = "ok" THEN patch_post(s, post_id, "publishing") ELSE s
        calls1 == <<patch_call, webhook_call>>
        http_error == webhook_out # "ok"
        retried == _schedule_retry(store, t_now, post_id)
        marked == _mark_post_failed(s1, post_id, MAX_RETRIES + 1, failed_out)
    IN  IF ~http_error
        THEN [store |-> store, counts |-> clear_retry_count(counts, post_id),
              sor |-> s1, calls |-> calls1, attempt |-> attempt,
              outcome |-> "success", exc |-> "none"]
        ELSE IF retry_count < MAX_RETRIES
        THEN [store |-> retried.store,
              counts |-> set_retry_count(counts, post_id, retry_count + 1),
              sor |-> s1, calls |-> calls1, attempt |-> attempt,
              outcome |-> "retry", exc |-> retried.exc]
        ELSE [store |-> store, counts |-> clear_retry_count(counts, post_id),
              sor |-> marked.sor, calls |-> Append(calls1, marked.call),
              attempt |-> attempt, outcome |-> "failed", exc |-> "none"]

\* the firing with the webhook called before the status update
trigger_linkedin_publish_webhook_first(store, counts, s, t_now, post_id, patch_out, webhook_out, failed_out) ==
    LET retry_count == get_retry_count(counts, post_id)
        attempt == retry_count + 1
        patch_call == [call |-> "patch_publishing", post_id |-> post_id,
                       attempts |-> 0, outcome |-> patch_out]
        webhook_call == [call |-> "post_webhook", post_id |-> post_id,
                         attempts |-> 0, outcome |-> webhook_out]
        s1 == IF webhook_out = "ok" /\ patch_out = "ok"
              THEN patch_post(s, post_id, "publishing") ELSE s
        calls1 == IF webhook_out = "ok" THEN <<webhook_call, patch_call>>
                  ELSE <<webhook_call>>
        http_error == patch_out # "ok" \/ webhook_out # "ok"
        retried == _schedule_retry(store, t_now, post_id)
        marked == _mark_post_failed(s1, post_id, MAX_RETRIES + 1, failed_out)
    IN  IF ~http_error
        THEN [store |-> store, counts |-> clear_retry_count(counts, post_id),
              sor |-> s1, calls |-> calls1, attempt |-> attempt,
              outcome |-> "success", exc |-> "none"]
        ELSE IF retry_count < MAX_RETRIES
        THEN [store |-> retried.store,
              counts |-> set_retry_count(counts, post_id, retry_count + 1),
              sor |-> s1, calls |-> calls1, attempt |-> attempt,
              outcome |-> "retry", exc |-> retried.exc]
        ELSE [store |-> store, counts |-> clear_retry_count(counts, post_id),
              sor |-> marked.sor, calls |-> Append(calls1, marked.call),
              attempt |-> attempt, outcome |-> "failed", exc |-> "none"]

\* One firing.  patch_out, webhook_out, failed_out: how the three HTTP calls
\* end, should the firing come to make them.
trigger_linkedin_publish(store, counts, s, t_now, post_id, patch_out, webhook_out, failed_out) ==
    LET retry_count == get_retry_count(counts, post_id)
        attempt == retry_count + 1
        patch_call == [call |-> "patch_publishing", post_id |-> post_id,
                       attempts |-> 0, outcome |-> patch_out]
        webhook_call == [call |-> "post_webhook", post_id |-> post_id,
                         attempts |-> 0, outcome |-> webhook_out]
        \* client.patch raises on a transport error, raise_for_status on a non-2xx
        s1 == IF patch_out = "ok" THEN patch_post(s, post_id, "publishing") ELSE s
        calls1 == IF patch_out = "ok" THEN <<patch_call, webhook_call>>
                  ELSE <<patch_call>>
        http_error == patch_out # "ok" \/ webhook_out # "ok"
        retried == _schedule_retry(store, t_now, post_id)
        marked == _mark_post_failed(s1, post_id, MAX_RETRIES + 1, failed_out)
    IN  IF ~http_error
        THEN [store |-> store, counts |-> clear_retry_count(counts, post_id),
              sor |-> s1, calls |-> calls1, attempt |-> attempt,
              outcome |-> "success", exc |-> "none"]
        ELSE IF retry_count < MAX_RETRIES
        THEN [store |-> retried.store,
              counts |-> set_retry_count(counts, post_id, retry_count + 1),
              sor |-> s1, calls |-> calls1, attempt |-> attempt,
              outcome |-> "retry", exc |-> retried.exc]
        ELSE [store |-> store, counts |-> clear_retry_count(counts, post_id),
              sor |-> marked.sor, calls |-> Append(calls1, marked.call),
              attempt |-> attempt, outcome |-> "failed", exc |-> "none"]

-----------------------------------------------------------------------------
(* catchup.py: recover_missed_posts *)

\* what GET /posts?status=scheduled can answer: no answer, a non-2xx status,
\* a body that is not JSON, or a JSON body of one of these shapes
ResponseShapes ==
    {"transport_error", "http_error", "not_json", "list", "wrapped",
     "wrapped_other_field", "null", "wrapped_null"}

\* the posts the system of record lists for status=scheduled
ScheduledPosts(s) == SelectSeq(s, LAMBDA post : post.status = "scheduled")

Fetch(s, shape) ==
    CASE shape = "transport_error" -> [exc |-> "ConnectError", body |-> JNull]
      [] shape = "http_error" -> [exc |-> "HTTPStatusError", body |-> JNull]
      [] shape = "not_json" -> [exc |-> "JSONDecodeError", body |-> JNull]
      [] shape = "list" -> [exc |-> "none", body |-> JList(ScheduledPosts(s))]
      [] shape = "wrapped" ->
            [exc |-> "none", body |-> JObject("posts", JList(ScheduledPosts(s)))]
      [] shape = "wrapped_other_field" ->
            [exc |-> "none", body |-> JObject("data", JList(ScheduledPosts(s)))]
      [] shape = "wrapped_null" -> [exc |-> "none", body |-> JObject("posts", JNull)]
      [] OTHER -> [exc |-> "none", body |-> JNull]

\* the exceptions of httpx.HTTPError, which the fetch's except clause catches
IsHTTPError(exc) == exc \in {"ConnectError", "HTTPStatusError"}

\* posts.get("posts", []) if isinstance(posts, dict) else [], for a body that
\* is not a list
UnwrapPosts(body) ==
    IF body.t = "list" THEN body
    ELSE IF body.t = "dict"
         THEN IF body.field = "posts" THEN body.value ELSE JList(<< >>)
         ELSE JList(<< >>)

\* post.get("scheduledAt") or post.get("scheduled_at")
ScheduledAtRaw(post) ==
    IF Truthy(post.scheduledAt) THEN post.scheduledAt ELSE post.scheduled_at

\* the loop body with the comparison of the times turned round
RecoverOne_reversed(store, recovered, t_now, post) ==
    LET raw == ScheduledAtRaw(post)
        parsed == fromisoformat(ReplaceZ(raw))
        scheduled_at == IF parsed.utcoffset = NoTzinfo
                        THEN [parsed EXCEPT !.utcoffset = Tzinfo(0)] ELSE parsed
        job_id == JobId(post.id.s)
        added == add_job(store, DateJob(job_id, t_now + CATCHUP_DELAY_SECONDS, post.id.s), TRUE)
        skip == [store |-> store, recovered |-> recovered]
    IN  IF ~Truthy(post.id) \/ ~Truthy(raw) THEN skip
        ELSE IF raw.t # "str" THEN skip
        ELSE IF parsed.exc # "none" THEN skip
        ELSE IF UtcInstant(scheduled_at) <= t_now THEN skip
        ELSE IF get_job(store, job_id) # None THEN skip
        ELSE [store |-> added.store, recovered |-> recovered + 1]

\* the loop body taking a post due exactly now as past due
RecoverOne_inclusive(store, recovered, t_now, post) ==
    LET raw == ScheduledAtRaw(post)
        parsed == fromisoformat(ReplaceZ(raw))
        scheduled_at == IF parsed.utcoffset = NoTzinfo
                        THEN [parsed EXCEPT !.utcoffset = Tzinfo(0)] ELSE parsed
        job_id == JobId(post.id.s)
        added == add_job(store, DateJob(job_id, t_now + CATCHUP_DELAY_SECONDS, post.id.s), TRUE)
        skip == [store |-> store, recovered |-> recovered]
    IN  IF ~Truthy(post.id) \/ ~Truthy(raw) THEN skip
        ELSE IF raw.t # "str" THEN skip
        ELSE IF parsed.exc # "none" THEN skip
        ELSE IF UtcInstant(scheduled_at) > t_now THEN skip
        ELSE IF get_job(store, job_id) # None THEN skip
        ELSE [store |-> added.store, recovered |-> recovered + 1]

\* the loop body without the look-up for a job already registered
RecoverOne_no_skip(store, recovered, t_now, post) ==
    LET raw == ScheduledAtRaw(post)
        parsed == fromisoformat(ReplaceZ(raw))
        scheduled_at == IF parsed.utcoffset = NoTzinfo
                        THEN [parsed EXCEPT !.utcoffset = Tzinfo(0)] ELSE parsed
        job_id == JobId(post.id.s)
        added == add_job(store, DateJob(job_id, t_now + CATCHUP_DELAY_SECONDS, post.id.s), TRUE)
        skip == [store |-> store, recovered |-> recovered]
    IN  IF ~Truthy(post.id) \/ ~Truthy(raw) THEN skip
        ELSE IF raw.t # "str" THEN skip
        ELSE IF parsed.exc # "none" THEN skip
        ELSE IF UtcInstant(scheduled_at) >= t_now THEN skip
        ELSE [store |-> added.store, recovered |-> recovered + 1]

\* The body of the for loop for one post: the store and the count after it.
RecoverOne(store, recovered, t_now, post) ==
    LET post_id == post.id
        scheduled_at_raw == ScheduledAtRaw(post)
        parsed == fromisoformat(ReplaceZ(scheduled_at_raw))
        \* a datetime without tzinfo is taken as UTC
        scheduled_at == IF parsed.utcoffset = NoTzinfo
                        THEN [parsed EXCEPT !.utcoffset = Tzinfo(0)] ELSE parsed
        job_id == JobId(post_id.s)
        run_date == t_now + CATCHUP_DELAY_SECONDS
        added == add_job(store, DateJob(job_id, run_date, post_id.s), TRUE)
        skip == [store |-> store, recovered |-> recovered]
    IN  IF ~Truthy(post_id) \/ ~Truthy(scheduled_at_raw) THEN skip
        ELSE IF scheduled_at_raw.t # "str" THEN skip
        ELSE IF parsed.exc # "none" THEN skip
        ELSE IF UtcInstant(scheduled_at) >= t_now THEN skip
        ELSE IF get_job(store, job_id) # None THEN skip
        ELSE [store |-> added.store, recovered |-> recovered + 1]

RECURSIVE RecoverLoop(_, _, _, _, _)
RecoverLoop(store, recovered, t_now, items, i) ==
    IF i > Len(items) THEN [store |-> store, recovered |-> recovered]
    ELSE LET r == RecoverOne(store, recovered, t_now, items[i])
         IN  RecoverLoop(r.store, r.recovered, t_now, items, i + 1)

\* recover_missed_posts(): the store after it, what it returns, and the
\* exception that leaves it, if one does
recover_missed_posts(store, t_now, response) ==
    LET posts == UnwrapPosts(response.body)
        done == RecoverLoop(store, 0, t_now, posts.items, 1)
    IN  IF IsHTTPError(response.exc)
        THEN [store |-> store, returned |-> 0, exc |-> "none"]
        ELSE IF response.exc # "none"
        THEN [store |-> store, returned |-> None, exc |-> response.exc]
        \* for post in posts: only a list (or something empty) can be walked
        ELSE IF posts.t # "list"
        THEN [store |-> store, returned |-> None, exc |-> "TypeError"]
        ELSE [store |-> done.store, returned |-> done.recovered, exc |-> "none"]

-----------------------------------------------------------------------------
(* The running service *)

\* The step just taken, for the properties that speak of single steps.  A
\* specification that starts with the record off keeps it off.
RecordOff == [op |-> "off"]
Record(r) == last' = IF last = RecordOff THEN last ELSE r

\* Per post, what its firings have done so far; kept only by a specification
\* that starts it.
HistoryOff == [op |-> "off"]
NoHistory == [p \in Posts |-> [firings |-> 0, reenqueues |-> 0, failed_updates |-> 0]]
NoEnqueues == [p \in Posts |-> [firings |-> 0, enqueues |-> 0]]
NoFirings == [p \in Posts |-> [firings |-> 0, since_restart |-> 0]]

CountCalls(calls, name) == Cardinality({i \in DOMAIN calls : calls[i].call = name})

\* the counters a specification has started go up by what a step did
Tally(did) ==
    history' =
        IF history = HistoryOff THEN history
        ELSE [p \in Posts |->
                [f \in DOMAIN history[p] |-> history[p][f] + did[p][f]]]

Nothing ==
    [firings |-> 0, reenqueues |-> 0, failed_updates |-> 0, enqueues |-> 0,
     since_restart |-> 0]

\* a firing of post_id has ended, having made r.calls and left r.store
Remember(post_id, before, r) ==
    LET added == IF r.store # before /\ get_job(r.store, JobId(post_id)) # None
                 THEN 1 ELSE 0
    IN  Tally([p \in Posts |->
                 IF p = post_id
                 THEN [firings |-> 1, reenqueues |-> added,
                       failed_updates |-> CountCalls(r.calls, "patch_failed"),
                       enqueues |-> added, since_restart |-> 1]
                 ELSE Nothing])

\* add_job has put a job under the key of each of these posts
Enqueued(post_ids) ==
    Tally([p \in Posts |-> [Nothing EXCEPT !.enqueues = IF p \in post_ids THEN 1 ELSE 0]])

\* where the enqueues are counted, the callers and the catch-up stop once a
\* post has had MaxEnqueues of them
Budget ==
    IF history = HistoryOff THEN TRUE
    ELSE \A p \in Posts :
            IF "enqueues" \in DOMAIN history[p]
            THEN history[p].enqueues < MaxEnqueues ELSE TRUE

\* the posts as the system of record holds them when the service starts
SorAt(t1, t2) ==
    << Post(JStr("p1"), JIso(t1, "Z"), JNull, "scheduled"),
       Post(JStr("p2"), JIso(t2, "Z"), JNull, "scheduled") >>

Init ==
    /\ now = 0
    /\ jobs = {}
    /\ retry_counts = << >>
    /\ running = {}
    /\ request = None
    /\ catchup = None
    /\ sor = SorAt(0, 300)
    /\ last = RecordOff
    /\ history = HistoryOff

TickTo(horizon) ==
    /\ \E d \in TimeSteps :
           /\ now + d <= horizon
           /\ now' = now + d
    /\ Record([op |-> "tick"])
    /\ UNCHANGED <<jobs, retry_counts, running, sor, history, request, catchup>>

Tick == TickTo(MaxTime)

ApiCall(op, post_id, scheduled_at, r) ==
    /\ jobs' = r.store
    /\ Record([op |-> op, post_id |-> post_id, arg |-> scheduled_at,
               existed |-> get_job(jobs, JobId(post_id)) # None,
               status_code |-> r.status_code, status |-> r.status,
               job_id |-> r.job_id, scheduled_at |-> r.scheduled_at])
    /\ Enqueued(IF op \in {"create", "reschedule"} /\ r.status_code \in {200, 201}
                THEN {post_id} ELSE {})
    /\ UNCHANGED <<now, retry_counts, running, sor, request, catchup>>

Create ==
    \E post_id \in Posts \cup {""}, scheduled_at \in ScheduleTimes :
        Budget /\ ApiCall("create", post_id, scheduled_at,
                create_schedule(jobs, post_id, scheduled_at))

Cancel ==
    \E post_id \in Posts :
        ApiCall("cancel", post_id, None, cancel_schedule(jobs, post_id))

Reschedule ==
    \E post_id \in Posts, scheduled_at \in ScheduleTimes :
        Budget /\ ApiCall("reschedule", post_id, scheduled_at,
                reschedule_post(jobs, post_id, scheduled_at))

Query ==
    \E post_id \in Posts :
        ApiCall("query", post_id, None, get_schedule(jobs, post_id))

\* The job instances of a post that are executing, and a new one at the start
\* of trigger_linkedin_publish
InstancesOf(pool, post_id) == {inst \in pool : inst.post_id = post_id}
Instance(pool, post_id) ==
    [post_id |-> post_id, pc |-> "start",
     n |-> CHOOSE k \in 0..Cardinality(InstancesOf(pool, post_id)) :
              /\ \A inst \in InstancesOf(pool, post_id) : inst.n # k
              /\ \A m \in 0..(k - 1) : \E inst \in InstancesOf(pool, post_id) : inst.n = m]

\* the executor without its limit on the instances of one job
submit_job_unlimited(pool, job) ==
    [pool |-> pool \cup {Instance(pool, job.args)}, exc |-> "none"]

\* The executor's submit_job: max_instances instances of a job id at most
submit_job(pool, job) ==
    IF Cardinality(InstancesOf(pool, job.args)) >= max_instances
    THEN [pool |-> pool, exc |-> "MaxInstancesReachedError"]
    ELSE [pool |-> pool \cup {Instance(pool, job.args)}, exc |-> "none"]

\* a scheduler that leaves the job of a date trigger in the store when it ran
process_job_keeps_job(store, pool, t_now, job) ==
    LET submitted == submit_job(pool, job)
        result == IF submitted.exc # "none" THEN "skipped_max_instances"
                  ELSE IF t_now - job.run_date > misfire_grace_time THEN "missed"
                  ELSE "submitted"
    IN  [store |-> store,
         pool |-> IF result = "submitted" THEN submitted.pool ELSE pool,
         result |-> result]

\* the dispatcher without a grace time: a job is run however late
process_job_no_grace(store, pool, t_now, job) ==
    LET submitted == submit_job(pool, job)
        result == IF submitted.exc # "none" THEN "skipped_max_instances"
                  ELSE "submitted"
    IN  [store |-> remove_job(store, job.id).store,
         pool |-> IF result = "submitted" THEN submitted.pool ELSE pool,
         result |-> result]

\* The scheduler's _process_jobs on a due job of a date trigger: the job is
\* submitted to the pool and, having no next run, removed from the store, in
\* one step under the store lock.  A job whose id is still executing is
\* skipped (and removed).  misfire_grace_time: a run picked up later than
\* that is missed.
process_job(store, pool, t_now, job) ==
    LET submitted == submit_job(pool, job)
        result == IF submitted.exc # "none" THEN "skipped_max_instances"
                  ELSE IF t_now - job.run_date > misfire_grace_time THEN "missed"
                  ELSE "submitted"
    IN  [store |-> remove_job(store, job.id).store,
         pool |-> IF result = "submitted" THEN submitted.pool ELSE pool,
         result |-> result]

Dispatch ==
    \E job \in jobs :
        /\ job.run_date <= now
        /\ LET r == process_job(jobs, running, now, job)
           IN  /\ jobs' = r.store
               /\ running' = r.pool
               /\ Record([op |-> "dispatch", post_id |-> job.args,
                          run_date |-> job.run_date, result |-> r.result])
        /\ UNCHANGED <<now, retry_counts, sor, history, request, catchup>>

\* the job instance of post_id runs trigger_linkedin_publish(post_id) to its end
FireWith(post_id, patch_out, webhook_out, failed_out) ==
    LET r == trigger_linkedin_publish(jobs, retry_counts, sor, now, post_id,
                                      patch_out, webhook_out, failed_out)
    IN  /\ \E inst \in InstancesOf(running, post_id) : inst.pc = "start"
        /\ jobs' = r.store
        /\ retry_counts' = r.counts
        /\ sor' = r.sor
        /\ running' = running \ {CHOOSE inst \in InstancesOf(running, post_id) : inst.pc = "start"}
        /\ Record([op |-> "fire", post_id |-> post_id, attempt |-> r.attempt,
                   calls |-> r.calls, outcome |-> r.outcome, exc |-> r.exc])
        /\ Remember(post_id, jobs, r)
        /\ UNCHANGED <<now, request, catchup>>

\* the outcomes of the calls a firing comes to make; a call it does not come
\* to make is given the one outcome "ok"
WebhookOutcomes(patch_out) == IF patch_out = "ok" THEN HttpOutcomes ELSE {"ok"}
FailedOutcomes(post_id, patch_out, webhook_out) ==
    IF get_retry_count(retry_counts, post_id) < MAX_RETRIES
       \/ (patch_out = "ok" /\ webhook_out = "ok")
    THEN {"ok"} ELSE HttpOutcomes

Fire ==
    \E post_id \in Posts, patch_out \in HttpOutcomes :
    \E webhook_out \in WebhookOutcomes(patch_out) :
    \E failed_out \in FailedOutcomes(post_id, patch_out, webhook_out) :
        FireWith(post_id, patch_out, webhook_out, failed_out)

\* a firing in which the status update or the webhook call fails
FireFailing ==
    \E post_id \in Posts, patch_out \in HttpOutcomes :
    \E webhook_out \in WebhookOutcomes(patch_out) :
    \E failed_out \in FailedOutcomes(post_id, patch_out, webhook_out) :
        /\ patch_out # "ok" \/ webhook_out # "ok"
        /\ FireWith(post_id, patch_out, webhook_out, failed_out)

\* one run of the catch-up, at startup or from its interval job
ReconcileOn(shapes) ==
    \E shape \in shapes :
    \E r \in {recover_missed_posts(jobs, now, Fetch(sor, shape))} :
        /\ Budget
        /\ jobs' = r.store
        /\ Record([op |-> "reconcile", shape |-> shape, at |-> now,
                   returned |-> r.returned, exc |-> r.exc,
                   recovered |-> {job.args : job \in r.store \ jobs}])
        /\ Enqueued({job.args : job \in r.store \ jobs})
        /\ UNCHANGED <<now, retry_counts, running, sor, request, catchup>>

Reconcile == ReconcileOn(ResponseShapes)

Next ==
    \/ Tick
    \/ Create
    \/ Cancel
    \/ Reschedule
    \/ Query
    \/ Dispatch
    \/ Fire
    \/ Reconcile

\* The whole service, every operation interleaved with every other.
Spec == Init /\ [][Next]_vars

-----------------------------------------------------------------------------
(* The stores and retry records an operation can find *)

StoreTimes == ScheduleTimes \cup {CATCHUP_DELAY_SECONDS, RETRY_DELAY_SECONDS}
AllJobs == {DateJob(JobId(p), t, p) : p \in Posts, t \in StoreTimes}
Stores == {s \in SUBSET AllJobs : \A j1 \in s, j2 \in s : j1.id = j2.id => j1 = j2}
RetryRecords == UNION {[S -> 1..MAX_RETRIES] : S \in SUBSET Posts}

-----------------------------------------------------------------------------
(* The scheduling API alone, from any store and any retry records *)

InitApi ==
    /\ now = 0
    /\ jobs \in Stores
    /\ retry_counts \in RetryRecords
    /\ running = {}
    /\ request = None
    /\ catchup = None
    /\ sor = SorAt(0, 300)
    /\ last = [op |-> "start"]
    /\ history = HistoryOff

NextApi ==
    \/ Create
    \/ Cancel
    \/ Reschedule
    \/ Query

ApiSpec == InitApi /\ [][NextApi]_vars

-----------------------------------------------------------------------------
(* Scheduling and firing, each step recorded *)

InitFire ==
    /\ now = 0
    /\ jobs = {}
    /\ retry_counts = << >>
    /\ running = {}
    /\ request = None
    /\ catchup = None
    /\ sor = SorAt(0, 300)
    /\ last = [op |-> "start"]
    /\ history = HistoryOff

NextFire ==
    \/ Tick
    \/ Create
    \/ Dispatch
    \/ Fire

FireSpec == InitFire /\ [][NextFire]_vars

-----------------------------------------------------------------------------
(* Jobs whose every firing fails, left to the clock and the dispatcher *)

InitRetry ==
    /\ now = 0
    /\ jobs \in Stores
    /\ retry_counts = << >>
    /\ running = {}
    /\ request = None
    /\ catchup = None
    /\ sor = SorAt(0, 300)
    /\ last = [op |-> "start"]
    /\ history = NoHistory

NextRetry ==
    \/ Tick
    \/ Dispatch
    \/ FireFailing

RetrySpec == InitRetry /\ [][NextRetry]_vars

-----------------------------------------------------------------------------
(* The catch-up alone, over what the system of record may hold *)

\* the posts the system of record may hold: well-formed ones, and ones with a
\* field missing, empty or malformed
PostsHeld ==
    {Post(JStr("p1"), JIso(0, "Z"), JNull, "scheduled"),
     Post(JStr("p1"), JIso(RETRY_DELAY_SECONDS, "Z"), JNull, "scheduled"),
     Post(JStr("p1"), JIso(3700, "+01:00"), JNull, "scheduled"),
     Post(JStr("p1"), JIso(0, ""), JNull, "scheduled"),
     Post(JStr("p1"), JNull, JIso(0, "+00:00"), "scheduled"),
     Post(JStr("p1"), JStr(""), JIso(300, "Z"), "scheduled"),
     Post(JStr("p1"), JStr("garbage"), JIso(0, "Z"), "scheduled"),
     Post(JStr("p1"), JNum(1), JNull, "scheduled"),
     Post(JStr("p1"), JNull, JNull, "scheduled"),
     Post(JStr("p2"), JIso(0, "Z"), JNull, "scheduled"),
     Post(JStr("p2"), JIso(300, "Z"), JNull, "scheduled"),
     Post(JStr("p2"), JIso(0, "Z"), JNull, "publishing"),
     Post(JNull, JIso(0, "Z"), JNull, "scheduled"),
     Post(JStr(""), JIso(0, "Z"), JNull, "scheduled")}

\* a post is held once: an id listed twice is the same post listed twice
Listings ==
    {s \in UNION {[1..n -> PostsHeld] : n \in 0..MaxListing} :
        \A i \in DOMAIN s, j \in DOMAIN s :
            (Truthy(s[i].id) /\ s[i].id = s[j].id) => s[i] = s[j]}

InitReconcile ==
    /\ now = RETRY_DELAY_SECONDS
    /\ jobs \in {s \in Stores : \A j \in s : j.run_date = 300}
    /\ retry_counts = << >>
    /\ running = {}
    /\ request = None
    /\ catchup = None
    /\ sor \in Listings
    /\ last = [op |-> "start"]
    /\ history = HistoryOff

NextReconcile == Reconcile

ReconcileSpec == InitReconcile /\ [][NextReconcile]_vars

-----------------------------------------------------------------------------
(* The catch-up run again and again, at once or later, nothing else acting *)

NextAgain ==
    \/ Tick
    \/ Reconcile

AgainSpec == InitReconcile /\ [][NextAgain]_vars

-----------------------------------------------------------------------------
(* The service as its threads run it.  The API handlers run one at a time  *)
(* on the event loop; the scheduler's thread dispatches; firings and the    *)
(* periodic catch-up run on the pool.  Each call on the job store is one    *)
(* step under the store's lock, and between two calls of one thread the     *)
(* other threads may take theirs.                                           *)

\* trigger_linkedin_publish from its start up to the look-up that opens
\* _schedule_retry: the HTTP calls, the retry tracker, sched.get_job
FireBegin ==
    \E inst \in running, patch_out \in HttpOutcomes :
    \E webhook_out \in WebhookOutcomes(patch_out) :
    \E failed_out \in FailedOutcomes(inst.post_id, patch_out, webhook_out) :
        LET post_id == inst.post_id
            r == trigger_linkedin_publish(jobs, retry_counts, sor, now, post_id,
                                          patch_out, webhook_out, failed_out)
            existing == get_job(jobs, JobId(post_id))
            retrying == [post_id |-> post_id, n |-> inst.n,
                         pc |-> IF existing # None THEN "remove_job" ELSE "add_job",
                         run_date |-> now + RETRY_DELAY_SECONDS]
        IN  /\ inst.pc = "start"
            /\ retry_counts' = r.counts
            /\ sor' = r.sor
            /\ IF r.outcome = "retry"
               THEN /\ jobs' = jobs
                    /\ running' = (running \ {inst}) \cup {retrying}
                    /\ Record([op |-> "fire_step", post_id |-> post_id, pc |-> retrying.pc,
                               attempt |-> r.attempt, calls |-> r.calls])
                    /\ UNCHANGED history
               ELSE /\ jobs' = r.store
                    /\ running' = running \ {inst}
                    /\ Record([op |-> "fire", post_id |-> post_id, attempt |-> r.attempt,
                               calls |-> r.calls, outcome |-> r.outcome, exc |-> r.exc])
                    /\ Remember(post_id, jobs, r)
            /\ UNCHANGED <<now, request, catchup>>

\* _schedule_retry: sched.remove_job(job_id), the job having been found
FireRemove ==
    \E inst \in running :
        LET removed == remove_job(jobs, JobId(inst.post_id))
        IN  /\ inst.pc = "remove_job"
            /\ jobs' = removed.store
            /\ IF removed.exc # "none"
               THEN \* the error leaves _schedule_retry and the except clause
                    \* it was called from
                    /\ running' = running \ {inst}
                    /\ Record([op |-> "fire", post_id |-> inst.post_id,
                               attempt |-> get_retry_count(retry_counts, inst.post_id),
                               calls |-> << >>, outcome |-> "retry", exc |-> removed.exc])
                    /\ Remember(inst.post_id, jobs, [store |-> jobs, calls |-> << >>])
               ELSE /\ running' = (running \ {inst}) \cup {[inst EXCEPT !.pc = "add_job"]}
                    /\ Record([op |-> "fire_step", post_id |-> inst.post_id, pc |-> "add_job",
                               attempt |-> get_retry_count(retry_counts, inst.post_id),
                               calls |-> << >>])
                    /\ UNCHANGED history
            /\ UNCHANGED <<now, retry_counts, sor, request, catchup>>

\* _schedule_retry: sched.add_job(..., replace_existing=True), and the return
FireAdd ==
    \E inst \in running :
        LET added == add_job(jobs, DateJob(JobId(inst.post_id), inst.run_date, inst.post_id), TRUE)
        IN  /\ inst.pc = "add_job"
            /\ jobs' = added.store
            /\ running' = running \ {inst}
            /\ Record([op |-> "fire", post_id |-> inst.post_id,
                       attempt |-> get_retry_count(retry_counts, inst.post_id),
                       calls |-> << >>, outcome |-> "retry", exc |-> added.exc])
            /\ Remember(inst.post_id, {}, [store |-> added.store, calls |-> << >>])
            /\ UNCHANGED <<now, retry_counts, sor, request, catchup>>

\* the posts that are scheduled, listed and asked about while the threads
\* are followed
Contested == {"p1"}

\* what a handler answers, and the unhandled exception behind a 500
Respond(req, r, exc) ==
    /\ jobs' = r.store
    /\ request' = None
    /\ Enqueued(IF r.status \in {"scheduled", "rescheduled"} THEN {req.post_id} ELSE {})
    /\ Record([op |-> req.op, post_id |-> req.post_id, arg |-> req.scheduled_at,
               existed |-> req.existed, status_code |-> r.status_code,
               status |-> r.status, job_id |-> r.job_id,
               scheduled_at |-> r.scheduled_at, exc |-> exc])

\* a handler from its start through sched.get_job(job_id)
HandlerBegin ==
    \E op \in {"create", "cancel", "reschedule"}, post_id \in Contested,
       scheduled_at \in ScheduleTimes :
        LET job_id == JobId(post_id)
            existing == get_job(jobs, job_id)
            req == [op |-> op, post_id |-> post_id,
                    scheduled_at |-> IF op = "cancel" THEN None ELSE scheduled_at,
                    existed |-> existing # None,
                    pc |-> IF op = "cancel" \/ (op = "reschedule" /\ existing # None)
                           THEN "remove_job" ELSE "add_job"]
        IN  /\ request = None
            /\ IF op = "cancel" THEN TRUE ELSE Budget
            /\ op = "cancel" => scheduled_at = 0
            /\ IF op = "create" /\ existing # None
               THEN Respond(req, ErrorResponse(jobs, 409, post_id), "HTTPException")
               ELSE IF op = "cancel" /\ existing = None
               THEN Respond(req, ErrorResponse(jobs, 404, post_id), "HTTPException")
               ELSE /\ request' = req
                    /\ jobs' = jobs
                    /\ Record([op |-> "handler_step", post_id |-> post_id, pc |-> req.pc])
                    /\ UNCHANGED history
            /\ UNCHANGED <<now, retry_counts, running, sor, catchup>>

\* the handler's next call on the job store, and its answer after the last
HandlerStep ==
    LET job_id == JobId(request.post_id)
        removed == remove_job(jobs, job_id)
        added == add_job(jobs, DateJob(job_id, request.scheduled_at, request.post_id), FALSE)
    IN  /\ request # None
        /\ IF request.pc = "remove_job"
           THEN IF removed.exc # "none"
                THEN Respond(request, ErrorResponse(jobs, 500, request.post_id), removed.exc)
                ELSE IF request.op = "cancel"
                THEN Respond(request, Response(removed.store, 200, "cancelled", None,
                                               request.post_id, None), "none")
                ELSE /\ jobs' = removed.store
                     /\ request' = [request EXCEPT !.pc = "add_job"]
                     /\ Record([op |-> "handler_step", post_id |-> request.post_id,
                                pc |-> "add_job"])
                     /\ UNCHANGED history
           ELSE IF added.exc # "none"
                THEN Respond(request, ErrorResponse(jobs, 500, request.post_id), added.exc)
                ELSE IF request.op = "create"
                THEN Respond(request, Response(added.store, 201, "scheduled", job_id,
                                 request.post_id, request.scheduled_at), "none")
                ELSE Respond(request, Response(added.store, 200, "rescheduled", job_id,
                                 request.post_id, request.scheduled_at), "none")
        /\ UNCHANGED <<now, retry_counts, running, sor, catchup>>

\* get_schedule makes one call on the job store
HandlerQuery ==
    /\ request = None
    /\ \E post_id \in Contested :
           ApiCall("query", post_id, None, get_schedule(jobs, post_id))

\* the checks of the loop body that come before the look-up of the job
PastDue(t_now, post) ==
    LET scheduled_at_raw == ScheduledAtRaw(post)
        parsed == fromisoformat(ReplaceZ(scheduled_at_raw))
        scheduled_at == IF parsed.utcoffset = NoTzinfo
                        THEN [parsed EXCEPT !.utcoffset = Tzinfo(0)] ELSE parsed
    IN  /\ Truthy(post.id) /\ Truthy(scheduled_at_raw)
        /\ scheduled_at_raw.t = "str"
        /\ parsed.exc = "none"
        /\ UtcInstant(scheduled_at) < t_now

\* the loop of recover_missed_posts at post i, about to look its job up; past
\* the last post the function returns
CatchupAt(run, i) ==
    IF i <= Len(run.items)
    THEN /\ catchup' = [run EXCEPT !.i = i, !.pc = "get_job"]
         /\ Record([op |-> "catchup_step", at |-> run.at, i |-> i])
    ELSE /\ catchup' = None
         /\ Record([op |-> "reconcile", shape |-> "list", at |-> run.at,
                    returned |-> run.recovered, exc |-> "none",
                    recovered |-> run.created])

\* recover_missed_posts from its start to the loop: the clock, the fetch
CatchupBegin ==
    \E shape \in ResponseShapes :
        LET response == Fetch(sor, shape)
            posts == UnwrapPosts(response.body)
            r == recover_missed_posts(jobs, now, response)
        IN  /\ catchup = None
            /\ Budget
            /\ IF response.exc # "none" \/ posts.t # "list"
               THEN Record([op |-> "reconcile", shape |-> shape, at |-> now,
                            returned |-> r.returned, exc |-> r.exc, recovered |-> {}])
                    /\ catchup' = None
               ELSE CatchupAt([items |-> posts.items, i |-> 1, pc |-> "get_job",
                               at |-> now, recovered |-> 0, created |-> {}], 1)
            /\ UNCHANGED <<now, jobs, retry_counts, running, sor, history, request>>

\* one call of the loop on the job store: sched.get_job, or sched.add_job
CatchupStep ==
    LET post == catchup.items[catchup.i]
        job_id == JobId(post.id.s)
        added == add_job(jobs, DateJob(job_id, catchup.at + CATCHUP_DELAY_SECONDS,
                                       post.id.s), TRUE)
    IN  /\ catchup # None
        /\ IF catchup.pc = "get_job"
           THEN /\ jobs' = jobs
                /\ UNCHANGED history
                /\ IF PastDue(catchup.at, post) /\ get_job(jobs, job_id) = None
                   THEN /\ catchup' = [catchup EXCEPT !.pc = "add_job"]
                        /\ Record([op |-> "catchup_step", at |-> catchup.at, i |-> catchup.i])
                   ELSE CatchupAt(catchup, catchup.i + 1)
           ELSE /\ jobs' = added.store
                /\ Enqueued({post.id.s})
                /\ CatchupAt([catchup EXCEPT !.recovered = @ + 1,
                                             !.created = @ \cup {post.id.s}],
                             catchup.i + 1)
        /\ UNCHANGED <<now, retry_counts, running, sor, request>>

InitThreads ==
    /\ now = 0
    /\ jobs = {}
    /\ retry_counts = << >>
    /\ running = {}
    /\ request = None
    /\ catchup = None
    /\ sor = SelectSeq(SorAt(0, 300), LAMBDA post : post.id.s \in Contested)
    /\ last = [op |-> "start"]
    /\ history = HistoryOff

NextThreads ==
    \/ Tick
    \/ HandlerBegin
    \/ HandlerStep
    \/ HandlerQuery
    \/ Dispatch
    \/ FireBegin
    \/ FireRemove
    \/ FireAdd
    \/ CatchupBegin
    \/ CatchupStep

ThreadsSpec == InitThreads /\ [][NextThreads]_vars

\* the same threads, with the enqueues and the firings of each post counted
InitCounted ==
    /\ now = 0
    /\ jobs = {}
    /\ retry_counts = << >>
    /\ running = {}
    /\ request = None
    /\ catchup = None
    /\ sor = SelectSeq(SorAt(0, 300), LAMBDA post : post.id.s \in Contested)
    /\ last = RecordOff
    /\ history = NoEnqueues

CountedSpec == InitCounted /\ [][NextThreads]_vars

-----------------------------------------------------------------------------
(* After downtime: the jobs are lost, the posts are still listed as         *)
(* scheduled.  The process runs: the clock advances, the interval job runs  *)
(* the catch-up and in time gets the listing, the scheduler's thread         *)
(* dispatches what is due.                                                  *)

InitRecovery ==
    /\ now = 0
    /\ jobs = {}
    /\ retry_counts = << >>
    /\ running = {}
    /\ request = None
    /\ catchup = None
    /\ sor = SorAt(0, 0)
    /\ last = RecordOff
    /\ history = HistoryOff

NextRecovery ==
    \/ Tick
    \/ Dispatch
    \/ Fire
    \/ Reconcile

RecoverySpec ==
    /\ InitRecovery
    /\ [][NextRecovery]_vars
    /\ WF_vars(Tick)
    /\ WF_vars(Dispatch)
    /\ WF_vars(ReconcileOn({"list"}))

-----------------------------------------------------------------------------
(* One process lifetime after the posts were enqueued, no caller acting any  *)
(* more: the clock, the scheduler's thread, the firings with every outcome   *)
(* of their HTTP calls, and the catch-up.  The firings of each post are      *)
(* counted.                                                                  *)

InitLifetime ==
    /\ now = 0
    /\ jobs = {DateJob(JobId(p), 0, p) : p \in Posts}
    /\ retry_counts = << >>
    /\ running = {}
    /\ request = None
    /\ catchup = None
    /\ sor = SorAt(0, 0)
    /\ last = RecordOff
    /\ history = NoHistory

NextLifetime ==
    \/ TickTo(LifeTime)
    \/ Dispatch
    \/ Fire
    \/ Reconcile

LifetimeSpec == InitLifetime /\ [][NextLifetime]_vars

-----------------------------------------------------------------------------
(* The process stopped and started again.  The job store is the database    *)
(* (SQLAlchemyJobStore), the retry tracker a dict of the module; the         *)
(* instances on the pool end with the process.  lifespan starts the          *)
(* scheduler and runs the catch-up once before the service takes requests.   *)

\* what a new process would find had the jobs been kept in memory
restart_memory_store(store, counts) == [store |-> {}, counts |-> << >>]

\* what a new process finds: the jobs of the database, _retry_counts = {}
restart(store, counts) == [store |-> store, counts |-> << >>]

\* the new process is up at t_now
RestartAt(t_now) ==
    \E shape \in ResponseShapes :
        LET found == restart(jobs, retry_counts)
            r == recover_missed_posts(found.store, t_now, Fetch(sor, shape))
        IN  /\ now' = t_now
            /\ jobs' = r.store
            /\ retry_counts' = found.counts
            /\ running' = {}
            /\ request' = None
            /\ catchup' = None
            /\ Record([op |-> "restart", shape |-> shape, exc |-> r.exc])
            /\ history' =
                   IF history = HistoryOff THEN history
                   ELSE [p \in Posts |->
                           [f \in DOMAIN history[p] |->
                               IF f = "since_restart" THEN 0 ELSE history[p][f]]]
            /\ UNCHANGED sor

Restart == RestartAt(now)

InitRestart ==
    /\ now = 0
    /\ jobs = {DateJob(JobId(p), 0, p) : p \in Posts}
    /\ retry_counts = << >>
    /\ running = {}
    /\ request = None
    /\ catchup = None
    /\ sor = SorAt(0, 0)
    /\ last = [op |-> "start"]
    /\ history = NoFirings

NextRestart ==
    \/ TickTo(LifeTime)
    \/ Dispatch
    \/ Fire
    \/ Restart

RestartSpec == InitRestart /\ [][NextRestart]_vars

-----------------------------------------------------------------------------
(* The process down for a while: it comes back with the jobs of the         *)
(* database, some of them due longer ago than the grace time allows.        *)

\* how long the process stays down
Downtime == misfire_grace_time

Outage ==
    /\ now <= MaxTime
    /\ RestartAt(now + Downtime)

InitOutage ==
    /\ now = 0
    /\ jobs = {DateJob(JobId(p), 0, p) : p \in Posts}
    /\ retry_counts = << >>
    /\ running = {}
    /\ request = None
    /\ catchup = None
    /\ sor = SorAt(0, 0)
    /\ last = [op |-> "start"]
    /\ history = HistoryOff

NextOutage ==
    \/ Tick
    \/ Outage
    \/ Dispatch
    \/ Fire

OutageSpec == InitOutage /\ [][NextOutage]_vars

-----------------------------------------------------------------------------
(* Properties *)

JobsUnder(store, post_id) == {j \in store : j.id = JobId(post_id)}

\* C1: in every reachable state of the whole service (create, reschedule,
\* cancel, dispatch, firing with its retry re-enqueue, and the catch-up, in
\* any order) the job store holds at most one live job under each key
\* "post-<post id>", and every job is keyed by the post it carries.
C1_OneLiveJobPerKey ==
    /\ \A p \in Posts : Cardinality(JobsUnder(jobs, p)) <= 1
    /\ \A j \in jobs : j.args \in Posts /\ j.id = JobId(j.args)

\* both posts have a live job, one of them a retry re-enqueued by a failed firing
C1_Witness ==
    /\ \A p \in Posts : Cardinality(JobsUnder(jobs, p)) = 1
    /\ \E p \in Posts : /\ p \in DOMAIN retry_counts
                        /\ InstancesOf(running, p) = {}
                        /\ \E j \in JobsUnder(jobs, p) : j.run_date = now + RETRY_DELAY_SECONDS

\* C2: a create for a post that has a live job answers 409 and leaves the
\* store as it was (same job, same fire-at, same payload, same number of
\* jobs); in particular a create right after a successful create of the same
\* post answers 409.
C2_DuplicateCreateRejected ==
    [][last'.op = "create" =>
        /\ JobsUnder(jobs, last'.post_id) # {} =>
              /\ last'.status_code = 409
              /\ jobs' = jobs
        /\ (last.op = "create" /\ last.status_code = 201
                /\ last.post_id = last'.post_id) =>
              last'.status_code = 409]_vars

C2_Witness ==
    /\ last.op = "create"
    /\ last.existed
    /\ last.status_code = 409
    /\ Cardinality(JobsUnder(jobs, last.post_id)) = 1

\* C3: a cancel for a post that has a live job (so also a cancel right after
\* a successful create) removes that job and answers status "cancelled", and
\* a query right after it answers 404; a cancel or a query for a post with no
\* live job answers 404 and leaves the store and the retry counts as they were.
C3_CancelAndNotFound ==
    [][/\ (last'.op = "cancel" /\ JobsUnder(jobs, last'.post_id) # {}) =>
              /\ last'.status_code = 200
              /\ last'.status = "cancelled"
              /\ jobs' = jobs \ JobsUnder(jobs, last'.post_id)
              /\ get_schedule(jobs', last'.post_id).status_code = 404
       /\ (last'.op = "cancel" /\ last.op = "create" /\ last.status_code = 201
              /\ last.post_id = last'.post_id) =>
              /\ last'.status = "cancelled"
              /\ JobsUnder(jobs', last'.post_id) = {}
       /\ (last'.op = "query" /\ last.op = "cancel" /\ last.status = "cancelled"
              /\ last.post_id = last'.post_id) =>
              last'.status_code = 404
       /\ (last'.op \in {"cancel", "query"} /\ JobsUnder(jobs, last'.post_id) = {}) =>
              /\ last'.status_code = 404
              /\ jobs' = jobs
              /\ retry_counts' = retry_counts]_vars

C3_Witness ==
    /\ last.op = "cancel"
    /\ last.existed
    /\ last.status = "cancelled"
    /\ JobsUnder(jobs, last.post_id) = {}

C5_RetriesThenFails ==
    [][/\ last'.op = "fire" =>
            LET p == last'.post_id
                k == history[p].firings
                failed == {i \in DOMAIN last'.calls : last'.calls[i].call = "patch_failed"}
            IN  /\ last'.attempt = k + 1
                /\ k < 3 =>
                      /\ last'.outcome = "retry"
                      /\ JobsUnder(jobs', p) = {DateJob(JobId(p), now + 120, p)}
                      /\ retry_counts'[p] = k + 1
                      /\ failed = {}
                /\ k >= 3 =>
                      /\ last'.outcome = "failed"
                      /\ Cardinality(failed) = 1
                      /\ \A i \in failed : last'.calls[i].attempts = 4
                      /\ p \notin DOMAIN retry_counts'
                      /\ JobsUnder(jobs', p) = {}
       /\ \A p \in Posts :
            /\ history'[p].firings <= 4
            /\ history'[p].reenqueues =
                  (IF history'[p].firings < 3 THEN history'[p].firings ELSE 3)
            /\ history'[p].failed_updates = (IF history'[p].firings = 4 THEN 1 ELSE 0)
            /\ (history'[p].firings = 4 /\ InstancesOf(running', p) = {}) =>
                  /\ p \notin DOMAIN retry_counts'
                  /\ JobsUnder(jobs', p) = {}]_vars

\* a post's 4th failing firing has just ended
C5_Witness ==
    /\ last.op = "fire"
    /\ last.outcome = "failed"
    /\ last.attempt = 4
    /\ history[last.post_id] = [firings |-> 4, reenqueues |-> 3, failed_updates |-> 1]
    /\ last.post_id \notin DOMAIN retry_counts
    /\ JobsUnder(jobs, last.post_id) = {}

\* C6: a firing whose webhook call succeeds, whatever the retry count before
\* it (0..3), leaves no retry record for the post, enqueues no job and sends
\* no 'failed' status update; so a firing that succeeds on the 2nd attempt
\* ends with no retry record.
C6_SuccessClearsRetryRecord ==
    [][(/\ last'.op = "fire"
        /\ \E i \in DOMAIN last'.calls :
              last'.calls[i].call = "post_webhook" /\ last'.calls[i].outcome = "ok") =>
            /\ last'.outcome = "success"
            /\ last'.attempt = get_retry_count(retry_counts, last'.post_id) + 1
            /\ last'.attempt \in 1..4
            /\ last'.post_id \notin DOMAIN retry_counts'
            /\ \A q \in Posts \ {last'.post_id} :
                  get_retry_count(retry_counts', q) = get_retry_count(retry_counts, q)
            /\ jobs' = jobs
            /\ \A i \in DOMAIN last'.calls : last'.calls[i].call # "patch_failed"
            /\ \A i \in DOMAIN sor' : sor'[i].status # "failed" \/ sor[i].status = "failed"]_vars

\* a firing that came after one failed firing has just succeeded
C6_Witness ==
    /\ last.op = "fire"
    /\ last.outcome = "success"
    /\ last.attempt = 2
    /\ last.post_id \notin DOMAIN retry_counts

C8_ReconcileCountsAndEnqueues ==
    [][(last'.op = "reconcile" /\ last'.shape \in {"list", "wrapped"}) =>
        LET time(post) == IF post.scheduledAt.t = "str" /\ post.scheduledAt.s # ""
                          THEN post.scheduledAt
                          ELSE IF post.scheduledAt.t = "null" \/ post.scheduledAt.t = "str"
                               THEN post.scheduled_at ELSE post.scheduledAt
            parsable(v) == v.t = "str" /\ v.s = "iso-8601"
            instant(v) == v.wall - (IF v.suffix = "+01:00" THEN 3600 ELSE 0)
            due == {i \in DOMAIN sor :
                      /\ sor[i].status = "scheduled"
                      /\ sor[i].id.t = "str" /\ sor[i].id.s # ""
                      /\ parsable(time(sor[i]))
                      /\ instant(time(sor[i])) < now
                      /\ JobsUnder(jobs, sor[i].id.s) = {}}
            ids == {sor[i].id.s : i \in due}
        IN  /\ last'.exc = "none"
            /\ last'.returned = Cardinality(ids)
            /\ jobs' = jobs \cup {DateJob(JobId(p), now + 30, p) : p \in ids}]_vars

\* a listing that names the same overdue post twice was recovered as one
C8_Witness ==
    /\ last.op = "reconcile"
    /\ last.exc = "none"
    /\ last.returned = 1
    /\ Len(sor) = 2
    /\ sor[1] = sor[2]
    /\ \E j \in jobs : j.run_date = last.at + 30 /\ JStr(j.args) = sor[1].id

\* C9: a catch-up leaves every job that was live as it was (same fire-at,
\* same payload), even when its post is listed as past due; a listed post
\* whose scheduled time is now or later and that had no job has none
\* afterwards; and when every listed post is either not yet past or already
\* has a live job, the catch-up returns 0.
C9_ReconcileSkips ==
    [][last'.op = "reconcile" =>
        LET time(post) == IF post.scheduledAt.t = "str" /\ post.scheduledAt.s # ""
                          THEN post.scheduledAt
                          ELSE IF post.scheduledAt.t = "null" \/ post.scheduledAt.t = "str"
                               THEN post.scheduled_at ELSE post.scheduledAt
            timed == {i \in DOMAIN sor :
                        /\ sor[i].id.t = "str" /\ sor[i].id.s # ""
                        /\ time(sor[i]).t = "str" /\ time(sor[i]).s = "iso-8601"}
            instant(v) == v.wall - (IF v.suffix = "+01:00" THEN 3600 ELSE 0)
            future == {i \in timed : instant(time(sor[i])) >= now}
            held == {i \in timed : JobsUnder(jobs, sor[i].id.s) # {}}
        IN  /\ \A j \in jobs : j \in jobs'
            /\ \A p \in Posts : JobsUnder(jobs, p) # {} => JobsUnder(jobs', p) = JobsUnder(jobs, p)
            /\ \A i \in future : JobsUnder(jobs, sor[i].id.s) = {} =>
                                    JobsUnder(jobs', sor[i].id.s) = {}
            /\ (timed = future \cup held /\ last'.exc = "none") => last'.returned = 0
            /\ last'.exc = "none" => last'.returned <= Cardinality(timed \ (future \cup held))]_vars

\* a catch-up has returned 0 over a listing of a past-due post that has a
\* live job and a post that is not yet due
C9_Witness ==
    /\ last.op = "reconcile"
    /\ last.shape = "list"
    /\ last.returned = 0
    /\ Len(sor) = 2
    /\ sor[1] = Post(JStr("p1"), JIso(0, "Z"), JNull, "scheduled")
    /\ sor[2] = Post(JStr("p2"), JIso(300, "Z"), JNull, "scheduled")
    /\ jobs = {DateJob(JobId("p1"), 300, "p1")}

\* C10: a catch-up whose fetch fails (transport error or non-2xx), or whose
\* response is anything but a bare list or an object holding the list under
\* "posts", returns 0 and raises nothing, and leaves the store and the retry
\* counts as they were.
C10_ReconcileFailOpen ==
    [][(last'.op = "reconcile" /\ last'.shape \notin {"list", "wrapped"}) =>
        /\ last'.exc = "none"
        /\ last'.returned = 0
        /\ jobs' = jobs
        /\ retry_counts' = retry_counts]_vars

\* C11: with the listing unchanged and no job fired or cancelled, a catch-up
\* recovers only posts that have no live job and leaves every live job as it
\* is, whenever it runs; so a catch-up that follows another recovers none of
\* the posts the first one recovered, leaves the jobs the first one created
\* with their fire-at, and returns 0 when the first one had got the listing.
C11_ReconcileIdempotent ==
    [][last'.op = "reconcile" =>
        /\ \A job \in jobs : job \in jobs'
        /\ \A p \in last'.recovered : JobsUnder(jobs, p) = {}
        /\ last'.exc = "none" => last'.returned = Cardinality(last'.recovered)
        /\ (last.op = "reconcile" /\ last.exc = "none") =>
              /\ last'.recovered \cap last.recovered = {}
              /\ \A p \in last.recovered :
                    JobsUnder(jobs', p) = {DateJob(JobId(p), last.at + 30, p)}
              /\ (last.shape \in {"list", "wrapped"} /\ last'.exc = "none") =>
                    last'.returned = 0]_vars

\* a later catch-up has returned 0 over a listing whose overdue post an
\* earlier catch-up had recovered
C11_Witness ==
    /\ last.op = "reconcile"
    /\ last.shape = "list"
    /\ last.returned = 0
    /\ last.at > RETRY_DELAY_SECONDS
    /\ \E i \in DOMAIN sor :
          /\ sor[i] = Post(JStr("p1"), JIso(0, "Z"), JNull, "scheduled")
          /\ JobsUnder(jobs, "p1") =
                {DateJob(JobId("p1"), RETRY_DELAY_SECONDS + CATCHUP_DELAY_SECONDS, "p1")}

\* C12: in every reachable state of the whole service, whatever the order of
\* dispatches, firings with their retry re-enqueues, catch-ups and API calls,
\* at most one firing of trigger_linkedin_publish is in progress for a post;
\* firings of different posts may be in progress together.
C12_SingleFlightPerKey ==
    \A p \in Posts : Cardinality(InstancesOf(running, p)) <= 1

\* both posts are being fired, and a job that is due waits under the key of
\* one of them
C12_Witness ==
    /\ \A p \in Posts : Cardinality(InstancesOf(running, p)) = 1
    /\ \E job \in jobs : job.run_date <= now /\ InstancesOf(running, job.args) # {}

\* C13: a job is fired at most once.  A firing starts only in a step that
\* takes one due job of the post out of the store, leaving none under its
\* key; while a firing runs a job appears under the key only by a new
\* enqueue; and the firings of a post, ended or in progress, never outnumber
\* the enqueues made under its key.
C13_FiredAtMostOnce ==
    [][\A p \in Posts :
        /\ (\E inst \in InstancesOf(running', p) : inst.pc = "start" /\ inst \notin running) =>
              \E job \in jobs :
                  /\ job.id = JobId(p)
                  /\ job.run_date <= now
                  /\ jobs' = jobs \ {job}
                  /\ JobsUnder(jobs', p) = {}
                  /\ Cardinality(InstancesOf(running', p))
                        = Cardinality(InstancesOf(running, p)) + 1
        /\ (InstancesOf(running, p) # {} /\ JobsUnder(jobs, p) = {}
                /\ JobsUnder(jobs', p) # {}) =>
              history'[p].enqueues = history[p].enqueues + 1
        /\ history'[p].firings + Cardinality(InstancesOf(running', p))
              <= history'[p].enqueues]_vars

\* a post enqueued twice has been fired twice, and nothing of it is left
C13_Witness ==
    /\ history["p1"].enqueues = 2
    /\ history["p1"].firings = 2
    /\ JobsUnder(jobs, "p1") = {}
    /\ InstancesOf(running, "p1") = {}

\* C14: a firing returns normally whatever becomes of its status update, its
\* webhook call, its retry re-enqueue and its 'failed' update, and whatever
\* the API does to the same key meanwhile: no exception leaves
\* trigger_linkedin_publish.
C14_NoErrorEscapesFiring ==
    [][last'.op = "fire" => last'.exc = "none"]_vars

\* C15: while the process runs and the catch-up in time gets the listing, a
\* post listed as scheduled whose time is past and that has neither a live
\* job nor a firing in progress gets a live job from the catch-up, and a
\* post's live job whose fire-at the clock reaches gets fired.
C15_RecoveredAfterDowntime ==
    \A p \in Posts :
        /\ (/\ \E i \in DOMAIN sor :
                  /\ sor[i].id = JStr(p)
                  /\ sor[i].status = "scheduled"
                  /\ sor[i].scheduledAt.wall < now
            /\ JobsUnder(jobs, p) = {}
            /\ InstancesOf(running, p) = {})
           ~> (JobsUnder(jobs, p) # {} \/ InstancesOf(running, p) # {})
        /\ (\E job \in JobsUnder(jobs, p) : job.run_date <= MaxTime)
           ~> (InstancesOf(running, p) # {})

\* the firing of a job the catch-up enqueued is in progress
C15_Witness ==
    /\ InstancesOf(running, "p1") # {}
    /\ "p1" \notin DOMAIN retry_counts
    /\ now = 2 * RETRY_DELAY_SECONDS
    /\ sor[1].status = "scheduled"

\* C16: in one process lifetime, with no create or reschedule call after the
\* initial enqueue, a post is fired at most MAX_RETRIES + 1 = 4 times, however
\* the catch-up interleaves.
C16_AtMostFourFirings ==
    \A p \in Posts : history[p].firings <= MAX_RETRIES + 1

\* C17: each look-up followed by add_job or remove_job acts as one step,
\* whatever the other threads do on the same key: create answers 201 or 409,
\* cancel and query 200 or 404, reschedule 200, and no handler, firing or
\* catch-up ends with the job store's JobLookupError or ConflictingIdError.
C17_CheckThenActAtomic ==
    [][/\ last'.op = "create" => last'.status_code \in {201, 409}
       /\ last'.op \in {"cancel", "query"} => last'.status_code \in {200, 404}
       /\ last'.op = "reschedule" => last'.status_code = 200
       /\ last'.op \in {"create", "cancel", "reschedule", "fire", "reconcile"}
              => last'.exc \notin {"JobLookupError", "ConflictingIdError"}]_vars

\* C18: while a firing of a post is in progress (dispatched, not yet ended),
\* no step that leaves the firing in progress puts a job under the post's
\* key: the catch-up enqueues nothing for a post that is being fired.
C18_NoCatchupJobDuringFiring ==
    [][\A p \in Posts :
          (InstancesOf(running, p) # {} /\ InstancesOf(running', p) = InstancesOf(running, p))
              => JobsUnder(jobs', p) \subseteq JobsUnder(jobs, p)]_vars

\* C19: once a firing of a post has failed with its retries used up (it has
\* attempted the 'failed' status update), no step puts a job under the post's
\* key again, no caller acting, whatever the status updates answered.
C19_TerminalFailureIsFinal ==
    [][\A p \in Posts :
          history[p].failed_updates > 0
              => JobsUnder(jobs', p) \subseteq JobsUnder(jobs, p)]_vars

\* C20: every retry record holds a count in 1..MAX_RETRIES, and a firing that
\* ends by retrying has left the count at its attempt number (the count it
\* found plus one) and exactly one job under the post's key, to fire
\* RETRY_DELAY_SECONDS after the clock was read.
C20_RetryCountBounded ==
    [][/\ \A p \in DOMAIN retry_counts' : retry_counts'[p] \in 1..MAX_RETRIES
       /\ (last'.op = "fire" /\ last'.outcome = "retry")
              => /\ last'.attempt \in 1..MAX_RETRIES
                 /\ get_retry_count(retry_counts', last'.post_id) = last'.attempt
                 /\ \E job \in jobs' :
                        /\ JobsUnder(jobs', last'.post_id) = {job}
                        /\ job.run_date - RETRY_DELAY_SECONDS \in 0..now']_vars

\* the status the system of record holds for a post
StatusOf(s, post_id) == {s[i].status : i \in {k \in DOMAIN s : s[k].id = JStr(post_id)}}

\* C21: the retry count of a post changes only in a step that ends a firing
\* of that post: it goes up, by one, only when the firing failed and enqueued
\* its retry, and it is deleted only when the firing succeeded or found the
\* count at MAX_RETRIES.  Every other step (create, cancel, reschedule, query,
\* catch-up, dispatch, the firing of another post) leaves it as it was.
C21_RetryRecordFrame ==
    [][\A p \in Posts :
          LET before == get_retry_count(retry_counts, p)
              after == get_retry_count(retry_counts', p)
          IN  /\ after # before => InstancesOf(running, p) \ running' # {}
              /\ after > before
                    => /\ after = before + 1
                       /\ \E job \in JobsUnder(jobs', p) :
                              job.run_date = now + RETRY_DELAY_SECONDS
              /\ after < before
                    => /\ after = 0
                       /\ \/ before = MAX_RETRIES
                          \/ jobs' = jobs /\ StatusOf(sor', p) = {"publishing"}]_vars

\* p1 is in its retry sequence and p2 has been fired with success
C21_Witness ==
    /\ get_retry_count(retry_counts, "p1") > 0
    /\ get_retry_count(retry_counts, "p2") = 0
    /\ StatusOf(sor, "p2") = {"publishing"}
    /\ InstancesOf(running, "p2") = {}

\* C22: a restart keeps every job of the store as it was (key, fire-at,
\* payload) and leaves no retry count; the first firing of a post after a
\* restart runs as attempt 1, and between two restarts a post whose jobs
\* come from its retries is fired at most MAX_RETRIES + 1 times.
C22_RestartKeepsJobsResetsCounts ==
    [][/\ last'.op = "restart" => (jobs \subseteq jobs' /\ retry_counts' = << >>)
       /\ last'.op = "fire"
              => /\ history[last'.post_id].since_restart = 0 => last'.attempt = 1
                 /\ last'.attempt <= history'[last'.post_id].since_restart
                 /\ last'.attempt <= MAX_RETRIES + 1]_vars

\* p1 failed once, the process was restarted, and p1 has then failed four
\* more times, the last of them ending its retries
C22_Witness ==
    /\ last.op = "fire" /\ last.post_id = "p1" /\ last.outcome = "failed"
    /\ last.attempt = MAX_RETRIES + 1
    /\ history["p1"].since_restart = MAX_RETRIES + 1
    /\ history["p1"].firings = MAX_RETRIES + 2

\* C23: the dispatcher starts a firing only for a job that is no more than
\* misfire_grace_time past its fire-at; a job further past it is dropped
\* without a firing, no job is left under its key, and no dispatch puts a job
\* into the store.
C23_MisfirePolicy ==
    [][/\ \A inst \in running' \ running :
              inst.pc = "start"
                  => \E job \in jobs \ jobs' :
                        /\ job.args = inst.post_id
                        /\ now - job.run_date <= misfire_grace_time
       /\ last'.op = "dispatch"
              => /\ jobs' \subseteq jobs
                 /\ JobsUnder(jobs', last'.post_id) = {}
                 /\ now - last'.run_date > misfire_grace_time
                        => (last'.result \in {"missed", "skipped_max_instances"}
                            /\ running' = running)]_vars

\* a job has just been dropped as missed, and nothing is left under its key
C23_Witness ==
    /\ last.op = "dispatch" /\ last.result = "missed"
    /\ now - last.run_date > misfire_grace_time
    /\ JobsUnder(jobs, last.post_id) = {}
    /\ InstancesOf(running, last.post_id) = {}

\* the places in a firing's calls where a call of this name was made
CallsNamed(calls, name) == {i \in DOMAIN calls : calls[i].call = name}

\* C24: in every firing the 'publishing' status update is the first call and
\* is made once; the webhook call, for the post of the firing, comes second
\* if it is made, and is made at most once; a 'failed' status update is made
\* at most once, as the last call, and only when a call before it in the same
\* firing failed and the retry count stood at MAX_RETRIES.
C24_CallsOrderedAndBounded ==
    [][last'.op = "fire" =>
        LET calls == last'.calls
        IN  /\ CallsNamed(calls, "patch_publishing") = {1}
            /\ CallsNamed(calls, "post_webhook") \subseteq {2}
            /\ CallsNamed(calls, "patch_failed") \subseteq {Len(calls)}
            /\ Len(calls) <= 3
            /\ \A i \in DOMAIN calls : calls[i].post_id = last'.post_id
            /\ CallsNamed(calls, "patch_failed") # {}
                  => /\ \E i \in 1..(Len(calls) - 1) : calls[i].outcome # "ok"
                     /\ get_retry_count(retry_counts, last'.post_id) = MAX_RETRIES]_vars

\* a firing has made all three calls: status update, failing webhook call,
\* 'failed' status update
C24_Witness ==
    /\ last.op = "fire"
    /\ Len(last.calls) = 3
    /\ last.calls[2].call = "post_webhook" /\ last.calls[2].outcome # "ok"
    /\ last.calls[3].call = "patch_failed"

\* C25: a job a caller has enqueued under a post's key while the post is
\* being fired is still in the store, with the fire-at the caller gave, when
\* that firing has ended: the firing's retry neither removes nor overwrites it.
C25_RetryKeepsCallersJob ==
    [][last'.op = "fire" => JobsUnder(jobs, last'.post_id) \subseteq jobs']_vars

\* C26: a post with a retry count above 0 has a job under its key or is being
\* fired.
C26_NoOrphanRetryRecord ==
    \A p \in Posts :
        get_retry_count(retry_counts, p) > 0
            => (JobsUnder(jobs, p) # {} \/ InstancesOf(running, p) # {})

====
